---- MODULE Spec2Model ----
(***************************************************************************)
(* A model of process_pdfs.py: the batch loop over PDF files, and for each *)
(* file the pipeline open -> extract_text_blocks -> get_body_text_style -> *)
(* identify_and_classify_headings -> group_text_into_sections -> write.    *)
(*                                                                         *)
(* Texts and font names are sequences of one-character strings, so that    *)
(* strip, split, isupper, lower, the substring test and the numbering      *)
(* pattern are computed on the characters.  Font sizes and vertical        *)
(* positions are integers.  A document is what the PDF library gives back: *)
(* whether fitz.open succeeds, whether its pages can be read, and the      *)
(* spans of each page in rendering order.                                  *)
(***************************************************************************)
EXTENDS Integers, Sequences, FiniteSets, TLC

VARIABLES pdf_files, file_idx, pc, blocks, body_size, headings, title_info,
          sections, section_blocks, result, outputs

vars == <<pdf_files, file_idx, pc, blocks, body_size, headings, title_info,
          sections, section_blocks, result, outputs>>

(***************************************************************************)
(* Bounds of the model.                                                    *)
(***************************************************************************)
\* the largest number of spans in one document
MaxLen == 4
\* the largest number of PDF files in the input directory
MaxDocs == 2

(***************************************************************************)
(* Constants of the program.                                               *)
(***************************************************************************)
DefaultBodySize == 12
BodySizeCutoff == 20
SizeDelta == 1
SizeScore == 2
BoldScore == 1
PatternScore == 5
ShortScore == 1
MaxWords == 15
UpperScore == 1
MinUpperLen == 2
ScoreThreshold == 4
MaxLevels == 3

(***************************************************************************)
(* Characters.                                                             *)
(***************************************************************************)
UpperChars == <<"A","B","C","D","E","F","G","H","I","J","K","L","M",
                "N","O","P","Q","R","S","T","U","V","W","X","Y","Z">>
LowerChars == <<"a","b","c","d","e","f","g","h","i","j","k","l","m",
                "n","o","p","q","r","s","t","u","v","w","x","y","z">>
DigitChars == {"0","1","2","3","4","5","6","7","8","9"}
SpaceChars == {" ", "\t", "\n"}

Range(s) == {s[k] : k \in 1..Len(s)}
IsUpperChar(c) == c \in Range(UpperChars)
IsLowerChar(c) == c \in Range(LowerChars)
IsDigit(c) == c \in DigitChars
IsSpace(c) == c \in SpaceChars

\* str.lower() on one character
LowerOf(c) ==
    IF IsUpperChar(c)
    THEN LowerChars[CHOOSE k \in 1..Len(UpperChars) : UpperChars[k] = c]
    ELSE c

\* str.lower()
Lower(s) == [k \in 1..Len(s) |-> LowerOf(s[k])]

\* str.strip(): leading and trailing whitespace removed
Strip(s) ==
    LET nonsp == {k \in 1..Len(s) : ~IsSpace(s[k])}
    IN  IF nonsp = {} THEN <<>>
        ELSE LET lo == CHOOSE k \in nonsp : \A m \in nonsp : k <= m
                 hi == CHOOSE k \in nonsp : \A m \in nonsp : k >= m
             IN  SubSeq(s, lo, hi)

\* len(str.split()): the number of maximal runs of non-whitespace
WordCount(s) ==
    Cardinality({k \in 1..Len(s) :
                    /\ ~IsSpace(s[k])
                    /\ (k = 1 \/ IsSpace(s[k-1]))})

\* str.isupper(): at least one cased character and no lowercase one
IsUpper(s) ==
    /\ \E k \in 1..Len(s) : IsUpperChar(s[k])
    /\ \A k \in 1..Len(s) : ~IsLowerChar(s[k])

\* sub in s
Contains(s, sub) ==
    \E k \in 0..(Len(s) - Len(sub)) :
        \A m \in 1..Len(sub) : s[k + m] = sub[m]

BoldWord == <<"b","o","l","d">>

(***************************************************************************)
(* heading_pattern = ^\s*(\d+(?:\.\d+)*\.?|[A-Z]\.)\s+ , matched at the    *)
(* start of the text.                                                      *)
(***************************************************************************)
CharAt(s, p) == IF p >= 1 /\ p <= Len(s) THEN s[p] ELSE ""

\* the position after the run of whitespace that starts at p
RECURSIVE SkipSpaces(_, _)
SkipSpaces(s, p) ==
    IF IsSpace(CharAt(s, p)) THEN SkipSpaces(s, p + 1) ELSE p

\* the position after the run of digits that starts at p
RECURSIVE SkipDigits(_, _)
SkipDigits(s, p) ==
    IF IsDigit(CharAt(s, p)) THEN SkipDigits(s, p + 1) ELSE p

\* \d+(?:\.\d+)*\.?\s+ from p: the digit groups are taken greedily, and no
\* shorter choice can match, as what must follow a group is never a digit
RECURSIVE MatchNumbering(_, _)
MatchNumbering(s, p) ==
    LET q == SkipDigits(s, p)
    IN  /\ q > p
        /\ \/ IsSpace(CharAt(s, q))
           \/ /\ CharAt(s, q) = "."
              /\ \/ IsSpace(CharAt(s, q + 1))
                 \/ /\ IsDigit(CharAt(s, q + 1))
                    /\ MatchNumbering(s, q + 1)

\* [A-Z]\.\s+ from p
MatchLetter(s, p) ==
    /\ IsUpperChar(CharAt(s, p))
    /\ CharAt(s, p + 1) = "."
    /\ IsSpace(CharAt(s, p + 2))

HeadingPatternMatch(s) ==
    LET p == SkipSpaces(s, 1)
    IN  MatchNumbering(s, p) \/ MatchLetter(s, p)

\* "\n".join(content)
RECURSIVE Join(_)
Join(content) ==
    IF content = <<>> THEN <<>>
    ELSE IF Len(content) = 1 THEN content[1]
    ELSE content[1] \o <<"\n">> \o Join(Tail(content))

(***************************************************************************)
(* extract_text_blocks: the spans of every page, in page order and then in *)
(* rendering order, with the text stripped, the empty ones left out, and   *)
(* the page number counted from 1.                                         *)
(***************************************************************************)
RECURSIVE ExtractPage(_, _)
ExtractPage(spans, page_no) ==
    IF spans = <<>> THEN <<>>
    ELSE LET span == Head(spans)
             text == Strip(span.text)
             rest == ExtractPage(Tail(spans), page_no)
         IN  IF text = <<>> THEN rest
             ELSE <<[text |-> text,
                     font_size |-> span.size,
                     font_name |-> span.font,
                     page |-> page_no,
                     y_pos |-> span.y]>> \o rest

RECURSIVE ExtractFrom(_, _)
ExtractFrom(pages, page_num) ==
    IF page_num >= Len(pages) THEN <<>>
    ELSE ExtractPage(pages[page_num + 1], page_num + 1)
            \o ExtractFrom(pages, page_num + 1)

extract_text_blocks(doc) == ExtractFrom(doc.pages, 0)

(***************************************************************************)
(* get_body_text_style.                                                    *)
(***************************************************************************)
FontSizes(bs) == [k \in 1..Len(bs) |-> bs[k].font_size]

Count(s, v) == Cardinality({k \in 1..Len(s) : s[k] = v})

\* the distinct values of s in the order of their first occurrence: the key
\* order of Counter(s)
RECURSIVE Keys(_)
Keys(s) ==
    IF s = <<>> THEN <<>>
    ELSE LET front == Keys(SubSeq(s, 1, Len(s) - 1))
             last == s[Len(s)]
         IN  IF last \in Range(front) THEN front ELSE Append(front, last)

\* Counter(s).items(): <<value, count>> in key order
CounterItems(s) ==
    LET keys == Keys(s)
    IN  [k \in 1..Len(keys) |-> <<keys[k], Count(s, keys[k])>>]

\* sorted(items, key=lambda x: x[1], reverse=True): a stable sort, so items
\* of equal count keep their order
RECURSIVE InsertByCount(_, _)
InsertByCount(sorted, item) ==
    IF sorted = <<>> THEN <<item>>
    ELSE IF Head(sorted)[2] >= item[2]
         THEN <<Head(sorted)>> \o InsertByCount(Tail(sorted), item)
         ELSE <<item>> \o sorted

RECURSIVE SortByCountDesc(_)
SortByCountDesc(items) ==
    IF items = <<>> THEN <<>>
    ELSE InsertByCount(SortByCountDesc(SubSeq(items, 1, Len(items) - 1)),
                       items[Len(items)])

\* the largest count
MaxCount(items) ==
    CHOOSE c \in {items[k][2] : k \in 1..Len(items)} :
        \A k \in 1..Len(items) : items[k][2] <= c

\* a variant that breaks ties towards the last key
FirstMaxCountIndexLast(items) ==
    CHOOSE k \in 1..Len(items) :
        /\ items[k][2] = MaxCount(items)
        /\ \A m \in 1..Len(items) : items[m][2] = MaxCount(items) => m <= k

\* the index of the first item with the largest count
FirstMaxCountIndex(items) ==
    CHOOSE k \in 1..Len(items) :
        /\ items[k][2] = MaxCount(items)
        /\ \A m \in 1..Len(items) : items[m][2] = MaxCount(items) => k <= m

\* statistics.mode raises StatisticsError: only the older library does, when
\* several values share the largest count
ModeRaises(s, legacy) ==
    LET items == CounterItems(s)
    IN  /\ legacy
        /\ Cardinality({k \in 1..Len(items) : items[k][2] = MaxCount(items)}) > 1

\* statistics.mode when it returns: the first value met with the largest count
StatisticsMode(s) ==
    LET items == CounterItems(s)
    IN  items[FirstMaxCountIndex(items)][1]

\* sizes = [... if b["font_size"] < 20], or all sizes when that is empty
BodySizes(bs) ==
    LET IsSmall(v) == v < BodySizeCutoff
        small == SelectSeq(FontSizes(bs), IsSmall)
    IN  IF small # <<>> THEN small ELSE FontSizes(bs)

\* the size get_body_text_style returns (with it comes an empty string);
\* legacy tells which statistics library runs
get_body_text_style(bs, legacy) ==
    IF bs = <<>> THEN DefaultBodySize
    ELSE LET sizes == BodySizes(bs)
         IN  IF ModeRaises(sizes, legacy)
             THEN SortByCountDesc(CounterItems(sizes))[1][1]
             ELSE StatisticsMode(sizes)

(***************************************************************************)
(* identify_and_classify_headings.  title_info is <<>> for None and        *)
(* <<[text, page]>> otherwise.                                             *)
(***************************************************************************)
MaxOf(S) == CHOOSE v \in S : \A w \in S : w <= v

\* a variant that takes the first fragment of page 1, whatever its size
FirstOfFirstPage(bs) ==
    LET OnFirstPage(b) == b.page = 1
        first_blocks == SelectSeq(bs, OnFirstPage)
    IN  IF first_blocks = <<>> THEN <<>>
        ELSE <<[text |-> first_blocks[1].text, page |-> 1]>>

\* a variant that takes the last fragment of the largest font size
LastLargestOfFirstPage(bs) ==
    LET OnFirstPage(b) == b.page = 1
        first_blocks == SelectSeq(bs, OnFirstPage)
    IN  IF first_blocks = <<>> THEN <<>>
        ELSE LET max_font == MaxOf(Range(FontSizes(first_blocks)))
                 k == CHOOSE k \in 1..Len(first_blocks) :
                         /\ first_blocks[k].font_size = max_font
                         /\ \A m \in (k + 1)..Len(first_blocks) :
                                first_blocks[m].font_size # max_font
             IN  <<[text |-> first_blocks[k].text, page |-> 1]>>

\* the first fragment of page 1, in stream order, of the largest font size
\* of page 1
SelectTitle(bs) ==
    LET OnFirstPage(b) == b.page = 1
        first_blocks == SelectSeq(bs, OnFirstPage)
    IN  IF first_blocks = <<>> THEN <<>>
        ELSE LET max_font == MaxOf(Range(FontSizes(first_blocks)))
                 k == CHOOSE k \in 1..Len(first_blocks) :
                         /\ first_blocks[k].font_size = max_font
                         /\ \A m \in 1..(k - 1) :
                                first_blocks[m].font_size # max_font
             IN  <<[text |-> first_blocks[k].text, page |-> 1]>>

\* a variant that skips nothing
SkipsNothing(b, title) == FALSE

\* if title_info and b["page"] == 1 and text == title_info["text"]: continue
IsTitleFragment(b, title) ==
    /\ title # <<>>
    /\ b.page = 1
    /\ b.text = title[1].text

Score(b, body) ==
      (IF b.font_size > body + SizeDelta THEN SizeScore ELSE 0)
    + (IF Contains(Lower(b.font_name), BoldWord) THEN BoldScore ELSE 0)
    + (IF HeadingPatternMatch(b.text) THEN PatternScore ELSE 0)
    + (IF WordCount(b.text) < MaxWords THEN ShortScore ELSE 0)
    + (IF IsUpper(b.text) /\ Len(b.text) > MinUpperLen THEN UpperScore ELSE 0)

Candidates(bs, body, title) ==
    LET IsCandidate(b) == /\ ~IsTitleFragment(b, title)
                          /\ Score(b, body) >= ScoreThreshold
    IN  SelectSeq(bs, IsCandidate)

\* sorted(S, reverse=True) of a set of sizes
RECURSIVE SortedDesc(_)
SortedDesc(S) ==
    IF S = {} THEN <<>>
    ELSE <<MaxOf(S)>> \o SortedDesc(S \ {MaxOf(S)})

LevelNames == <<"H1", "H2", "H3">>

\* a variant that keeps every candidate, the sizes after the third at H3
StyleMapNoCap(cands, size) ==
    LET sizes == SortedDesc({cands[k].font_size : k \in 1..Len(cands)})
        rank == CHOOSE k \in 1..Len(sizes) : sizes[k] = size
    IN  LevelNames[IF rank < MaxLevels THEN rank ELSE MaxLevels]

\* style_map.get(size): the level of a size, "" for None
StyleMap(cands, size) ==
    LET sizes == SortedDesc({cands[k].font_size : k \in 1..Len(cands)})
        n == Len(sizes)
        top == SubSeq(sizes, 1, IF n < MaxLevels THEN n ELSE MaxLevels)
    IN  IF size \in Range(top)
        THEN LevelNames[CHOOSE k \in 1..Len(top) : top[k] = size]
        ELSE ""

\* (h["page"], h["y_pos"]) compared as tuples
KeyLeq(a, b) == a.page < b.page \/ (a.page = b.page /\ a.y_pos <= b.y_pos)

RECURSIVE InsertByKey(_, _)
InsertByKey(sorted, h) ==
    IF sorted = <<>> THEN <<h>>
    ELSE IF KeyLeq(Head(sorted), h)
         THEN <<Head(sorted)>> \o InsertByKey(Tail(sorted), h)
         ELSE <<h>> \o sorted

RECURSIVE StableSortByKey(_)
StableSortByKey(hs) ==
    IF hs = <<>> THEN <<>>
    ELSE InsertByKey(StableSortByKey(SubSeq(hs, 1, Len(hs) - 1)), hs[Len(hs)])

\* a variant that leaves the headings in candidate order
Unsorted(hs) == hs

\* sorted(headings, key=lambda h: (h["page"], h["y_pos"]))
SortHeadings(hs) == StableSortByKey(hs)

\* the headings appended for the candidates that have a level
LevelledHeadings(cands) ==
    LET HasLevel(b) == StyleMap(cands, b.font_size) # ""
        kept == SelectSeq(cands, HasLevel)
    IN  [k \in 1..Len(kept) |->
            [level |-> StyleMap(cands, kept[k].font_size),
             text |-> kept[k].text,
             page |-> kept[k].page,
             y_pos |-> kept[k].y_pos]]

identify_and_classify_headings(bs, body) ==
    LET title == SelectTitle(bs)
        cands == Candidates(bs, body, title)
    IN  IF cands = <<>>
        THEN [headings |-> <<>>, title_info |-> title]
        ELSE [headings |-> SortHeadings(LevelledHeadings(cands)),
              title_info |-> title]

(***************************************************************************)
(* group_text_into_sections.  The end of the last section is infinity, so  *)
(* every block is before it.                                               *)
(***************************************************************************)
AfterStart(block, hs, i) ==
    \/ block.page > hs[i].page
    \/ (block.page = hs[i].page /\ block.y_pos > hs[i].y_pos)

\* a variant that lets a section run to the end of the document
NeverEnds(block, hs, i) == TRUE

BeforeEnd(block, hs, i) ==
    \/ i + 1 > Len(hs)
    \/ block.page < hs[i + 1].page
    \/ (block.page = hs[i + 1].page /\ block.y_pos < hs[i + 1].y_pos)

\* a variant that takes a block for a heading only at the heading's place
IsHeadingAtPlace(block, hs) ==
    \E k \in 1..Len(hs) : /\ hs[k].text = block.text
                          /\ hs[k].page = block.page
                          /\ hs[k].y_pos = block.y_pos

\* any(h['text'] == block['text'] and h['page'] == block['page'] ...)
IsHeading(block, hs) ==
    \E k \in 1..Len(hs) : hs[k].text = block.text /\ hs[k].page = block.page

\* the indices, in stream order, of the blocks appended to content for
\* heading i
ContentBlocks(bs, hs, i) ==
    LET Taken(k) == /\ AfterStart(bs[k], hs, i)
                    /\ BeforeEnd(bs[k], hs, i)
                    /\ ~IsHeading(bs[k], hs)
    IN  SelectSeq([k \in 1..Len(bs) |-> k], Taken)

group_text_into_sections(bs, hs) ==
    [i \in 1..Len(hs) |->
        LET idx == ContentBlocks(bs, hs, i)
        IN  [heading_text |-> hs[i].text,
             heading_level |-> hs[i].level,
             page |-> hs[i].page,
             content |-> Join([k \in 1..Len(idx) |-> bs[idx[k]].text])]]

(***************************************************************************)
(* generate_outline_from_pdf and process_pdfs, one action per step.        *)
(*   pc = "scan"     the input directory has been listed                   *)
(*   pc = "open"     at the head of the loop, before fitz.open             *)
(*   pc = "extract"  the document is open                                  *)
(*   pc = "check"    blocks holds the extracted fragments                  *)
(*   pc = "classify" body_size is computed                                 *)
(*   pc = "group"    headings and title_info are computed                  *)
(*   pc = "write"    result holds what generate_outline_from_pdf returns   *)
(*   pc = "done"     process_pdfs has returned                             *)
(*   pc = "crashed"  an exception has left process_pdfs                    *)
(* section_blocks records, for each section, the indices of the blocks     *)
(* whose text was appended to its content.                                 *)
(***************************************************************************)
NoResult == [unset |-> TRUE]

Untitled == <<"U","n","t","i","t","l","e","d">>

Locals ==
    /\ blocks = <<>>
    /\ body_size = 0
    /\ headings = <<>>
    /\ title_info = <<>>
    /\ sections = <<>>
    /\ section_blocks = <<>>
    /\ result = NoResult

ResetLocals ==
    /\ blocks' = <<>>
    /\ body_size' = 0
    /\ headings' = <<>>
    /\ title_info' = <<>>
    /\ sections' = <<>>
    /\ section_blocks' = <<>>
    /\ result' = NoResult

CurrentPdf == pdf_files[file_idx]

\* if not pdf_files: return
NoPdfs ==
    /\ pc = "scan"
    /\ pdf_files = <<>>
    /\ pc' = "done"
    /\ UNCHANGED <<pdf_files, file_idx, blocks, body_size, headings,
                   title_info, sections, section_blocks, result, outputs>>

StartLoop ==
    /\ pc = "scan"
    /\ pdf_files # <<>>
    /\ pc' = "open"
    /\ UNCHANGED <<pdf_files, file_idx, blocks, body_size, headings,
                   title_info, sections, section_blocks, result, outputs>>

\* fitz.open raises: return {"error": f"Could not open PDF: {e}"}
OpenFails ==
    /\ pc = "open"
    /\ file_idx <= Len(pdf_files)
    /\ ~CurrentPdf.opens
    /\ result' = [error |-> "Could not open PDF: " \o CurrentPdf.cause]
    /\ pc' = "write"
    /\ UNCHANGED <<pdf_files, file_idx, blocks, body_size, headings,
                   title_info, sections, section_blocks, outputs>>

OpenSucceeds ==
    /\ pc = "open"
    /\ file_idx <= Len(pdf_files)
    /\ CurrentPdf.opens
    /\ pc' = "extract"
    /\ UNCHANGED <<pdf_files, file_idx, blocks, body_size, headings,
                   title_info, sections, section_blocks, result, outputs>>

\* extract_text_blocks runs outside the try: what the library raises while
\* the pages are read leaves generate_outline_from_pdf and process_pdfs
ExtractRaises ==
    /\ pc = "extract"
    /\ ~CurrentPdf.readable
    /\ pc' = "crashed"
    /\ UNCHANGED <<pdf_files, file_idx, blocks, body_size, headings,
                   title_info, sections, section_blocks, result, outputs>>

Extract ==
    /\ pc = "extract"
    /\ CurrentPdf.readable
    /\ blocks' = extract_text_blocks(CurrentPdf)
    /\ pc' = "check"
    /\ UNCHANGED <<pdf_files, file_idx, body_size, headings, title_info,
                   sections, section_blocks, result, outputs>>

\* if not blocks: return {"title": "", "outline": [], "sections": []}
EmptyDocument ==
    /\ pc = "check"
    /\ blocks = <<>>
    /\ result' = [title |-> <<>>, outline |-> <<>>, sections |-> <<>>]
    /\ pc' = "write"
    /\ UNCHANGED <<pdf_files, file_idx, blocks, body_size, headings,
                   title_info, sections, section_blocks, outputs>>

BodyStyle ==
    /\ pc = "check"
    /\ blocks # <<>>
    /\ \E legacy \in BOOLEAN :
           body_size' = get_body_text_style(blocks, legacy)
    /\ pc' = "classify"
    /\ UNCHANGED <<pdf_files, file_idx, blocks, headings, title_info,
                   sections, section_blocks, result, outputs>>

Classify ==
    /\ pc = "classify"
    /\ LET r == identify_and_classify_headings(blocks, body_size)
       IN  /\ headings' = r.headings
           /\ title_info' = r.title_info
    /\ pc' = "group"
    /\ UNCHANGED <<pdf_files, file_idx, blocks, body_size, sections,
                   section_blocks, result, outputs>>

\* the title, the outline, the sections and the returned dict
GroupAndAssemble ==
    /\ pc = "group"
    /\ LET secs == group_text_into_sections(blocks, headings)
           title == IF title_info # <<>> THEN title_info[1].text ELSE Untitled
           outline == [k \in 1..Len(headings) |->
                          [level |-> headings[k].level,
                           text |-> headings[k].text,
                           page |-> headings[k].page]]
       IN  /\ sections' = secs
           /\ section_blocks' =
                  [i \in 1..Len(headings) |-> ContentBlocks(blocks, headings, i)]
           /\ result' = [title |-> title, outline |-> outline, sections |-> secs]
    /\ pc' = "write"
    /\ UNCHANGED <<pdf_files, file_idx, blocks, body_size, headings,
                   title_info, outputs>>

\* output_file.write_text(json.dumps(result, ...)), and on to the next file
WriteOutput ==
    /\ pc = "write"
    /\ outputs' = Append(outputs, result)
    /\ file_idx' = file_idx + 1
    /\ pc' = "open"
    /\ ResetLocals
    /\ UNCHANGED pdf_files

LoopEnds ==
    /\ pc = "open"
    /\ file_idx > Len(pdf_files)
    /\ pc' = "done"
    /\ UNCHANGED <<pdf_files, file_idx, blocks, body_size, headings,
                   title_info, sections, section_blocks, result, outputs>>

Next ==
    \/ NoPdfs
    \/ StartLoop
    \/ OpenFails
    \/ OpenSucceeds
    \/ ExtractRaises
    \/ Extract
    \/ EmptyDocument
    \/ BodyStyle
    \/ Classify
    \/ GroupAndAssemble
    \/ WriteOutput
    \/ LoopEnds

(***************************************************************************)
(* The documents of the runs.                                              *)
(***************************************************************************)
Span(text, size, font, y) == [text |-> text, size |-> size, font |-> font, y |-> y]

Pdf(pages) == [opens |-> TRUE, readable |-> TRUE, cause |-> "", pages |-> pages]

\* a file fitz.open rejects
CorruptPdf ==
    [opens |-> FALSE, readable |-> FALSE,
     cause |-> "cannot open broken document", pages |-> <<>>]

\* a file that opens and whose pages cannot be read (it needs a password)
EncryptedPdf ==
    [opens |-> TRUE, readable |-> FALSE,
     cause |-> "document closed or encrypted", pages |-> <<>>]

SeqsUpTo(S, n) == UNION {[1..k -> S] : k \in 0..n}

\* the documents of two pages whose spans, in order, are a sequence of at
\* most n spans of S
TwoPagePdfs(S, n) ==
    UNION {{Pdf(<<SubSeq(s, 1, c), SubSeq(s, c + 1, Len(s))>>) : c \in 0..Len(s)}
           : s \in SeqsUpTo(S, n)}

\* an input directory with no file or with one
SingleFile(U) == {<<>>} \cup {<<d>> : d \in U \cup {CorruptPdf, EncryptedPdf}}

InitWith(batches) ==
    /\ pdf_files \in batches
    /\ file_idx = 1
    /\ pc = "scan"
    /\ outputs = <<>>
    /\ Locals

Arial == <<"A","r","i","a","l">>
ArialBold == <<"A","r","i","a","l","-","B","o","l","d">>

T_1A == <<"1", ".", " ", "A">>
T_2B == <<"2", ".", " ", "B">>
T_INTRO == <<"I","N","T","R","O">>
T_body == <<"b","o","d","y">>
T_blank == <<" ", " ">>
T_padded == <<" ", "A", ".", " ", "x", "\n">>
T_long == <<"a"," ","a"," ","a"," ","a"," ","a"," ","a"," ","a"," ","a"," ",
            "a"," ","a"," ","a"," ","a"," ","a"," ","a"," ","a">>

(***************************************************************************)
(* Runs over documents with a numbered heading at two heights, an          *)
(* upper-case line that is a heading only at the larger size, and body     *)
(* text between and below the headings.                                    *)
(***************************************************************************)
SectionSpans ==
    {Span(T_1A, 16, ArialBold, 50), Span(T_1A, 16, ArialBold, 80),
     Span(T_INTRO, 16, Arial, 50), Span(T_INTRO, 12, Arial, 80),
     Span(T_body, 12, Arial, 60), Span(T_body, 12, Arial, 90)}

InitSections == InitWith(SingleFile(TwoPagePdfs(SectionSpans, MaxLen)))

SpecSections == InitSections /\ [][Next]_vars

\* places in the document, compared by (page, y_pos)
Before(a, b) == a.page < b.page \/ (a.page = b.page /\ a.y_pos < b.y_pos)
SamePlace(a, b) == a.page = b.page /\ a.y_pos = b.y_pos

\* block b is the fragment some heading was made from
IsHeadingFragment(b) ==
    \E k \in 1..Len(headings) :
        /\ headings[k].text = b.text
        /\ headings[k].page = b.page
        /\ headings[k].y_pos = b.y_pos

\* the text of block k was appended to the content of some section
InSomeSection(k) ==
    \E i \in 1..Len(section_blocks) : k \in Range(section_blocks[i])

\* the content of every section is the joined texts of its recorded blocks
ContentIsOfRecordedBlocks ==
    /\ Len(sections) = Len(section_blocks)
    /\ \A i \in 1..Len(sections) :
           sections[i].content =
               Join([n \in 1..Len(section_blocks[i]) |->
                        blocks[section_blocks[i][n]].text])

(***************************************************************************)
(* C2: once the sections are grouped, every fragment at or after the first *)
(* heading's (page, y_pos) is one of the heading fragments or has its text *)
(* in the content of some section.                                         *)
(***************************************************************************)
C2_SectionsCoverFromFirstHeading ==
    (pc = "write" /\ headings # <<>>) =>
        \A k \in 1..Len(blocks) :
            ~Before(blocks[k], headings[1]) =>
                IsHeadingFragment(blocks[k]) \/ InSomeSection(k)

(***************************************************************************)
(* C3: the sections do not overlap: no fragment gives its text to two      *)
(* sections (or twice to one), and the fragments of section i lie strictly *)
(* after heading i and, but for the last section, strictly before heading  *)
(* i+1, in (page, y_pos) order.                                            *)
(***************************************************************************)
C3_SectionsDoNotOverlap ==
    pc = "write" =>
        /\ ContentIsOfRecordedBlocks
        /\ \A i \in 1..Len(section_blocks) :
               /\ Cardinality(Range(section_blocks[i])) = Len(section_blocks[i])
               /\ \A k \in Range(section_blocks[i]) :
                      /\ Before(headings[i], blocks[k])
                      /\ i < Len(headings) => Before(blocks[k], headings[i + 1])
        /\ \A i, j \in 1..Len(section_blocks) :
               i # j => Range(section_blocks[i]) \cap Range(section_blocks[j]) = {}

\* two sections with content each, so a second heading ends the first
C3_Witness ==
    /\ pc = "write"
    /\ Len(section_blocks) >= 2
    /\ section_blocks[1] # <<>>
    /\ section_blocks[2] # <<>>

(***************************************************************************)
(* C4: a fragment whose (text, page) is that of some heading gives its     *)
(* text to no section, wherever it lies.                                   *)
(***************************************************************************)
C4_HeadingTextNotInContent ==
    pc = "write" =>
        /\ ContentIsOfRecordedBlocks
        /\ \A k \in 1..Len(blocks) :
               (\E h \in 1..Len(headings) :
                    /\ headings[h].text = blocks[k].text
                    /\ headings[h].page = blocks[k].page)
               => ~InSomeSection(k)

\* a fragment that is no heading fragment, has the text and page of a
\* heading and lies inside that heading's section
C4_Witness ==
    /\ pc = "write"
    /\ \E k \in 1..Len(blocks), h \in 1..Len(headings) :
           /\ headings[h].text = blocks[k].text
           /\ headings[h].page = blocks[k].page
           /\ ~IsHeadingFragment(blocks[k])
           /\ Before(headings[h], blocks[k])
           /\ h < Len(headings) => Before(blocks[k], headings[h + 1])
           /\ ~InSomeSection(k)

(***************************************************************************)
(* C5: the heading list is sorted ascending by (page, y_pos), in whatever  *)
(* order the fragments arrive.                                             *)
(***************************************************************************)
C5_HeadingsSorted ==
    \A k \in 1..(Len(headings) - 1) :
        \/ headings[k].page < headings[k + 1].page
        \/ /\ headings[k].page = headings[k + 1].page
           /\ headings[k].y_pos <= headings[k + 1].y_pos

\* two heading fragments arrive in the stream in the opposite order
C5_Witness ==
    /\ pc = "group"
    /\ Len(headings) >= 2
    /\ \E j, k \in 1..Len(blocks) :
           /\ j < k
           /\ IsHeadingFragment(blocks[j])
           /\ IsHeadingFragment(blocks[k])
           /\ Before(blocks[k], blocks[j])

(***************************************************************************)
(* Runs over documents whose candidates have up to four font sizes, with a *)
(* long bold line, larger than all of them, that is no candidate.          *)
(***************************************************************************)
LevelSpans ==
    {Span(T_1A, 18, ArialBold, 50), Span(T_2B, 16, ArialBold, 60),
     Span(T_1A, 14, Arial, 80), Span(T_2B, 12, Arial, 90),
     Span(T_long, 22, ArialBold, 60)}

InitLevels == InitWith(SingleFile(TwoPagePdfs(LevelSpans, MaxLen)))

SpecLevels == InitLevels /\ [][Next]_vars

\* the candidates: the blocks that are no title fragment and score at least 4
C6_Candidates ==
    {k \in 1..Len(blocks) :
        /\ ~(title_info # <<>> /\ blocks[k].page = 1
                /\ blocks[k].text = title_info[1].text)
        /\ Score(blocks[k], body_size) >= 4}

\* 1 for the largest font size among the candidates, 2 for the next, ...
C6_Rank(cands, k) ==
    1 + Cardinality({blocks[m].font_size : m \in
                        {m \in cands : blocks[m].font_size > blocks[k].font_size}})

C6_HeadingOf(k, lvl) ==
    [level |-> lvl, text |-> blocks[k].text,
     page |-> blocks[k].page, y_pos |-> blocks[k].y_pos]

(***************************************************************************)
(* C6: a candidate is in the heading list with level Hk, k in 1..3,        *)
(* exactly when its font size is the k-th largest distinct font size of    *)
(* the candidates, and the candidates of a lower rank are in no heading:   *)
(* for every candidate and level, the headings equal to that candidate at  *)
(* that level are as many as the candidates of that text, page and y_pos   *)
(* whose rank is that level, and every heading comes from a candidate.     *)
(***************************************************************************)
C6_LevelIsSizeRank ==
    pc = "group" =>
        LET cands == C6_Candidates
            rank == [k \in cands |-> C6_Rank(cands, k)]
        IN  /\ \A k \in cands : \A n \in 1..3 :
                   Cardinality({h \in 1..Len(headings) :
                                   headings[h] = C6_HeadingOf(k, LevelNames[n])})
                   = Cardinality({m \in cands :
                                   /\ C6_HeadingOf(m, "") = C6_HeadingOf(k, "")
                                   /\ rank[m] = n})
            /\ \A h \in 1..Len(headings) :
                   /\ headings[h].level \in {"H1", "H2", "H3"}
                   /\ \E k \in cands :
                          /\ rank[k] <= 3
                          /\ headings[h] = C6_HeadingOf(k, LevelNames[rank[k]])
            /\ Len(headings) = Cardinality({k \in cands : rank[k] <= 3})

\* candidates of four font sizes: three levels, and one candidate dropped
C6_Witness ==
    /\ pc = "group"
    /\ \E k \in C6_Candidates : C6_Rank(C6_Candidates, k) = 4
    /\ {headings[h].level : h \in 1..Len(headings)} = {"H1", "H2", "H3"}

(***************************************************************************)
(* Runs over documents with two texts at the large size and at the body    *)
(* size, and body text.                                                    *)
(***************************************************************************)
TitleSpans ==
    {Span(T_INTRO, 18, Arial, 50), Span(T_INTRO, 12, Arial, 80),
     Span(T_1A, 18, ArialBold, 60), Span(T_1A, 12, Arial, 90),
     Span(T_body, 12, Arial, 50)}

InitTitle == InitWith(SingleFile(TwoPagePdfs(TitleSpans, MaxLen)))

SpecTitle == InitTitle /\ [][Next]_vars

FirstPageBlocks == {k \in 1..Len(blocks) : blocks[k].page = 1}

\* the first block of page 1, in stream order, with the largest font size
\* of page 1
C7_TitleBlock ==
    CHOOSE k \in FirstPageBlocks :
        /\ \A m \in FirstPageBlocks : blocks[m].font_size <= blocks[k].font_size
        /\ \A m \in FirstPageBlocks :
               blocks[m].font_size = blocks[k].font_size => k <= m

C7_TitleInfoAsClaimed ==
    pc \in {"group", "write"} /\ blocks # <<>> =>
        IF FirstPageBlocks # {}
        THEN title_info = <<[text |-> blocks[C7_TitleBlock].text, page |-> 1]>>
        ELSE title_info = <<>>

(***************************************************************************)
(* C7 as stated: with a fragment on page 1 the title is the text of the    *)
(* first page-1 fragment of the largest page-1 font size; with no fragment *)
(* on page 1 the title is absent and generate_outline_from_pdf reports     *)
(* "Untitled".                                                             *)
(***************************************************************************)
C7_TitleOrUntitled ==
    /\ C7_TitleInfoAsClaimed
    /\ (pc = "write" /\ "title" \in DOMAIN result) =>
           result.title = IF FirstPageBlocks # {}
                          THEN blocks[C7_TitleBlock].text
                          ELSE Untitled

(***************************************************************************)
(* C7 amended: as stated when the document has a fragment; for a document  *)
(* with no fragment at all generate_outline_from_pdf reports the title "". *)
(***************************************************************************)
C7_TitleOrUntitledUnlessEmpty ==
    /\ C7_TitleInfoAsClaimed
    /\ (pc = "write" /\ "title" \in DOMAIN result) =>
           result.title = IF blocks = <<>> THEN <<>>
                          ELSE IF FirstPageBlocks # {}
                          THEN blocks[C7_TitleBlock].text
                          ELSE Untitled

\* the title is taken from a page-1 fragment that is not the first of page 1
C7_Witness ==
    /\ pc = "write"
    /\ FirstPageBlocks # {}
    /\ \E m \in FirstPageBlocks : m < C7_TitleBlock
    /\ result.title = blocks[C7_TitleBlock].text

\* v is the most frequent of the sizes below 20 (of all sizes when none is
\* below 20), the one met first among those of the largest count
IsBodyEstimate(v, bs) ==
    LET all == [k \in 1..Len(bs) |-> bs[k].font_size]
        small == {k \in 1..Len(bs) : all[k] < 20}
        used == IF small # {} THEN small ELSE 1..Len(bs)
        N(w) == Cardinality({k \in used : all[k] = w})
        First(w) == CHOOSE k \in used :
                        all[k] = w /\ \A m \in used : all[m] = w => k <= m
    IN  /\ \E k \in used : all[k] = v
        /\ \A k \in used : N(all[k]) <= N(v)
        /\ \A k \in used : N(all[k]) = N(v) => First(v) <= First(all[k])

\* the blocks that do not match the title by text and page 1
C8_WithoutTitle ==
    LET NotTitle(b) == ~(title_info # <<>> /\ b.page = 1
                             /\ b.text = title_info[1].text)
    IN  SelectSeq(blocks, NotTitle)

(***************************************************************************)
(* C8: with a title selected, no heading has page 1 and the title's text,  *)
(* and the body size is estimated from all the fragments, those matching   *)
(* the title included.                                                     *)
(***************************************************************************)
C8_TitleIsNoHeading ==
    (pc \in {"group", "write"} /\ title_info # <<>>) =>
        /\ \A h \in 1..Len(headings) :
               ~(headings[h].page = 1 /\ headings[h].text = title_info[1].text)
        /\ IsBodyEstimate(body_size, blocks)

\* a fragment matching the title scores at least 4 and is no heading, and
\* leaving the title's fragments out would change the body size
C8_Witness ==
    /\ pc = "group"
    /\ title_info # <<>>
    /\ \E k \in 1..Len(blocks) :
           /\ blocks[k].page = 1
           /\ blocks[k].text = title_info[1].text
           /\ Score(blocks[k], body_size) >= 4
    /\ headings # <<>>
    /\ C8_WithoutTitle # <<>>
    /\ ~IsBodyEstimate(body_size, C8_WithoutTitle)

(***************************************************************************)
(* Runs over the one-page documents made of the five fragments of the      *)
(* worked example, any of them, in any order.                              *)
(***************************************************************************)
T_Intro == <<"I","n","t","r","o">>
T_Background == <<"1","."," ","B","a","c","k","g","r","o","u","n","d">>
T_body_text_here == <<"b","o","d","y"," ","t","e","x","t"," ","h","e","r","e">>
T_Detail == <<"1",".","1"," ","D","e","t","a","i","l">>
T_more_body == <<"m","o","r","e"," ","b","o","d","y">>

ExamplePage ==
    <<Span(T_Intro, 14, Arial, 10),
      Span(T_Background, 18, ArialBold, 50),
      Span(T_body_text_here, 12, Arial, 80),
      Span(T_Detail, 16, ArialBold, 120),
      Span(T_more_body, 12, Arial, 150)>>

\* the sequences of distinct spans of the example
ExampleArrangements ==
    {s \in SeqsUpTo(Range(ExamplePage), Len(ExamplePage)) :
        \A j, k \in 1..Len(s) : j # k => s[j] # s[k]}

InitExample == InitWith(SingleFile({Pdf(<<s>>) : s \in ExampleArrangements}))

SpecExample == InitExample /\ [][Next]_vars

ExampleBlocks == extract_text_blocks(Pdf(<<ExamplePage>>))

(***************************************************************************)
(* C1 as stated: for the five fragments of the example and body size 12,   *)
(* the headings are [(H1, "1. Background", 1, 50), (H2, "1.1 Detail", 1,   *)
(* 120)] and the sections are [("1. Background", H1, 1, "body text         *)
(* here"), ("1.1 Detail", H2, 1, "more body")].                            *)
(***************************************************************************)
C1_ExampleAsStated ==
    (pc = "write" /\ blocks = ExampleBlocks /\ body_size = 12) =>
        /\ headings =
               <<[level |-> "H1", text |-> T_Background, page |-> 1, y_pos |-> 50],
                 [level |-> "H2", text |-> T_Detail, page |-> 1, y_pos |-> 120]>>
        /\ sections =
               <<[heading_text |-> T_Background, heading_level |-> "H1",
                  page |-> 1, content |-> T_body_text_here],
                 [heading_text |-> T_Detail, heading_level |-> "H2",
                  page |-> 1, content |-> T_more_body]>>

(***************************************************************************)
(* C1 amended: "1. Background" has the largest font size of page 1, so it  *)
(* is the title and no heading: the headings are [(H1, "1.1 Detail", 1,    *)
(* 120)] and the sections are [("1.1 Detail", H1, 1, "more body")].        *)
(***************************************************************************)
C1_ExampleWithTitle ==
    (pc = "write" /\ blocks = ExampleBlocks /\ body_size = 12) =>
        /\ title_info = <<[text |-> T_Background, page |-> 1]>>
        /\ headings =
               <<[level |-> "H1", text |-> T_Detail, page |-> 1, y_pos |-> 120]>>
        /\ sections =
               <<[heading_text |-> T_Detail, heading_level |-> "H1",
                  page |-> 1, content |-> T_more_body]>>

\* the example has been processed
C1_Witness ==
    /\ pc = "write"
    /\ blocks = ExampleBlocks
    /\ body_size = 12
    /\ Len(sections) = 1

(***************************************************************************)
(* Runs over input directories of several files: broken ones, ones that    *)
(* open and cannot be read, ones without text, ones with headings.         *)
(***************************************************************************)
BatchPdfs ==
    {CorruptPdf,
     EncryptedPdf,
     Pdf(<<<<Span(T_blank, 12, Arial, 50)>>>>),
     Pdf(<<<<>>, <<Span(T_padded, 12, Arial, 50)>>>>),
     Pdf(<<<<Span(T_INTRO, 18, Arial, 50), Span(T_1A, 16, ArialBold, 60),
             Span(T_body, 12, Arial, 90)>>>>)}

InitBatch == InitWith(SeqsUpTo(BatchPdfs, MaxDocs))

SpecBatch == InitBatch /\ [][Next]_vars

\* the document fails in the PDF library, when opened or when read
FailsInLibrary(pdf) == ~pdf.opens \/ ~pdf.readable

(***************************************************************************)
(* C9: when process_pdfs has ended, every document of the batch has its    *)
(* output: {"error": message} for a document that failed in the rendering  *)
(* collaborator, and an outline for every other document, wherever the     *)
(* failing documents sit in the batch.                                     *)
(***************************************************************************)
C9_FailureStaysWithItsDocument ==
    pc \in {"done", "crashed"} =>
        /\ Len(outputs) = Len(pdf_files)
        /\ \A i \in 1..Len(pdf_files) :
               IF FailsInLibrary(pdf_files[i])
               THEN DOMAIN outputs[i] = {"error"}
               ELSE DOMAIN outputs[i] = {"title", "outline", "sections"}

(***************************************************************************)
(* What does hold of a batch: a document that fitz.open rejects gets the   *)
(* error result, and a batch in which every opened document can be read is *)
(* processed to its end, each document getting its own output.             *)
(***************************************************************************)
C9_OpenFailureStaysWithItsDocument ==
    /\ \A i \in 1..Len(outputs) :
           IF ~pdf_files[i].opens
           THEN outputs[i] =
                    [error |-> "Could not open PDF: " \o pdf_files[i].cause]
           ELSE DOMAIN outputs[i] = {"title", "outline", "sections"}
    /\ (\A i \in 1..Len(pdf_files) :
            pdf_files[i].opens => pdf_files[i].readable)
           => (pc # "crashed" /\ (pc = "done" => Len(outputs) = Len(pdf_files)))

(***************************************************************************)
(* get_body_text_style called on a list of fragments.                      *)
(*   pc = "call"      blocks is the argument                               *)
(*   pc = "returned"  body_size is the size returned                       *)
(***************************************************************************)
CallBodyStyle ==
    /\ pc = "call"
    /\ \E legacy \in BOOLEAN :
           body_size' = get_body_text_style(blocks, legacy)
    /\ pc' = "returned"
    /\ UNCHANGED <<pdf_files, file_idx, blocks, headings, title_info,
                   sections, section_blocks, result, outputs>>

NextBody == CallBodyStyle

BodyFragments ==
    {[text |-> T_body, font_size |-> size, font_name |-> Arial,
      page |-> 1, y_pos |-> 50] : size \in {10, 12, 20, 24}}

InitBody ==
    /\ blocks \in SeqsUpTo(BodyFragments, MaxLen)
    /\ pc = "call"
    /\ pdf_files = <<>>
    /\ file_idx = 1
    /\ outputs = <<>>
    /\ body_size = 0
    /\ headings = <<>>
    /\ title_info = <<>>
    /\ sections = <<>>
    /\ section_blocks = <<>>
    /\ result = NoResult

SpecBody == InitBody /\ [][NextBody]_vars

(***************************************************************************)
(* C10: get_body_text_style returns 12 for an empty list; otherwise the    *)
(* most frequent font size among the fragments below 20, or among all      *)
(* when none is below 20, and among the sizes of the highest count the one *)
(* that occurs first in the stream.                                        *)
(***************************************************************************)
C10_BodySizeIsFirstMode ==
    pc = "returned" =>
        IF blocks = <<>> THEN body_size = 12
        ELSE IsBodyEstimate(body_size, blocks)

\* two sizes below 20 share the highest count, the one returned is not the
\* smaller, and a fragment of size 20 or more is in the list
C10_Witness ==
    /\ pc = "returned"
    /\ \E j, k \in 1..Len(blocks) :
           /\ blocks[j].font_size = body_size
           /\ blocks[k].font_size < body_size
           /\ Count(FontSizes(blocks), blocks[k].font_size)
                  = Count(FontSizes(blocks), body_size)
    /\ \E k \in 1..Len(blocks) : blocks[k].font_size >= 20

====
